---- MODULE Spec2Model ----
\* A model of collectionstats.py: the main sequence of driver calls that
\* switches profiling on for a timed window, the map/reduce over the profiling
\* collection (MAP, REDUCE), parse_results and print_table.
\*
\* Strings the program inspects character by character (the `info` field and
\* the keys cut out of it) are sequences of one-character strings, so that the
\* regular expression of MAP is matched against characters.
EXTENDS Integers, Sequences, FiniteSets

\* ---------------------------------------------------------------- bounds
MaxObjects == 3     \* documents the profiling collection holds (--max-objects)
MaxInterval == 2    \* largest --interval tried; the smallest is -1

\* ------------------------------------------------------- character classes
Lower == {"a", "b", "c", "d", "e", "f", "g", "h", "i", "j", "k", "l", "m", "n", "o", "p", "q", "r", "s", "t", "u", "v", "w", "x", "y", "z"}
Upper == {"A", "B", "C", "D", "E", "F", "G", "H", "I", "J", "K", "L", "M", "N", "O", "P", "Q", "R", "S", "T", "U", "V", "W", "X", "Y", "Z"}
Digit == {"0", "1", "2", "3", "4", "5", "6", "7", "8", "9"}
\* \w, \s, [\w\-] and [\w\-\.\$] of the regular expression in MAP
WordChars == Lower \cup Upper \cup Digit \cup {"_"}
SpaceChars == {" ", "\t"}
DbChars == WordChars \cup {"-"}
CollChars == WordChars \cup {"-", ".", "$"}

\* ------------------------------------------------------------- the strings
s_query == <<"q", "u", "e", "r", "y">>
s_insert == <<"i", "n", "s", "e", "r", "t">>
s_getmore == <<"g", "e", "t", "m", "o", "r", "e">>
s_update == <<"u", "p", "d", "a", "t", "e">>
s_remove == <<"r", "e", "m", "o", "v", "e">>
s_Query == <<"Q", "u", "e", "r", "y">>
s_cmd == <<"$", "c", "m", "d">>
s_tmp == <<"t", "m", "p">>
s_system == <<"s", "y", "s", "t", "e", "m">>
s_test == <<"t", "e", "s", "t">>
s_my_db == <<"m", "y", "-", "d", "b">>
s_foo == <<"f", "o", "o">>
s_foo_bar == <<"f", "o", "o", ".", "b", "a", "r">>
s_a_b == <<"a", "-", "b", "$">>
s_ntoreturn == <<" ", "n", "t", "o", "r", "e", "t", "u", "r", "n", ":", "0">>
s_colon == <<":", "x">>

\* info strings the profiler writes in the runs of the whole tool
i_query_foo == <<"q", "u", "e", "r", "y", " ", "t", "e", "s", "t", ".", "f", "o", "o">>
i_insert_foo == <<"i", "n", "s", "e", "r", "t", " ", "t", "e", "s", "t", ".", "f", "o", "o">>
i_query_foo_bar == <<"q", "u", "e", "r", "y", " ", "t", "e", "s", "t", ".", "f", "o", "o", ".", "b", "a", "r", " ", "n", "t", "o", "r", "e", "t", "u", "r", "n", ":", "0">>
i_Query_foo == <<"Q", "u", "e", "r", "y", " ", "t", "e", "s", "t", ".", "f", "o", "o">>
i_command_cmd == <<"c", "o", "m", "m", "a", "n", "d", " ", "t", "e", "s", "t", ".", "$", "c", "m", "d", " ", "c", "o", "u", "n", "t">>
i_lead_query_foo == <<" ", "q", "u", "e", "r", "y", " ", "t", "e", "s", "t", ".", "f", "o", "o">>
Infos == {i_query_foo, i_insert_foo, i_query_foo_bar, i_Query_foo, i_command_cmd, i_lead_query_foo}

\* info strings put together from pieces, well-formed and not, for MAP alone
Leads == {<<>>, <<" ">>}
Verbs == {<<>>, s_query, s_Query}
Gaps == {<<>>, <<" ">>, <<" ", "\t">>}
Databases == {<<>>, s_test, s_tmp, s_system, s_my_db}
Dots == {<<>>, <<".">>}
Collections == {<<>>, s_foo, s_foo_bar, s_cmd, s_a_b}
Trails == {<<>>, s_ntoreturn, s_colon}
AllInfos == {l \o v \o g \o d \o p \o c \o t : l \in Leads, v \in Verbs, g \in Gaps, d \in Databases, p \in Dots, c \in Collections, t \in Trails}

\* ------------------------------------------------------------ pymongo levels
OFF == 0
SLOW_ONLY == 1
ALL == 2
Levels == {OFF, SLOW_ONLY, ALL}
NoLevel == -1       \* profiling_level before line 172 has assigned it

\* ------------------------------------------------------------------- MAP
\* the first position from i on whose character is outside class
RECURSIVE RunEnd(_, _, _)
RunEnd(s, i, class) ==
    IF i <= Len(s) /\ s[i] \in class THEN RunEnd(s, i + 1, class) ELSE i

\* MAP applied to one profiling document: the sequence of its emit() calls.
\* /^(\w+)+\s+([\w\-]+)\.([\w\-\.\$]+)/ is anchored at the first character;
\* every group is greedy and each is followed by a character outside its own
\* class, so each group is the longest run of its class.
MAP_no_system(info) ==
    LET a == RunEnd(info, 1, WordChars)
        b == RunEnd(info, a, SpaceChars)
        c == RunEnd(info, b, DbChars)
        d == RunEnd(info, c + 1, CollChars)
        matches == /\ a > 1 /\ b > a /\ c > b
                   /\ c <= Len(info) /\ info[c] = "."
                   /\ d > c + 1
        type == SubSeq(info, 1, a - 1)
        database == SubSeq(info, b, c - 1)
        collection == SubSeq(info, c + 1, d - 1)
    IN  IF matches /\ collection # s_cmd /\ database # s_tmp
        THEN <<[_id |-> [collection |-> collection, type |-> type],
                value |-> [count |-> 1]]>>
        ELSE <<>>

MAP_no_dot(info) ==
    LET a == RunEnd(info, 1, WordChars)
        b == RunEnd(info, a, SpaceChars)
        c == RunEnd(info, b, DbChars)
        d == RunEnd(info, c + 1, CollChars \ {"."})
        matches == /\ a > 1 /\ b > a /\ c > b
                   /\ c <= Len(info) /\ info[c] = "."
                   /\ d > c + 1
        type == SubSeq(info, 1, a - 1)
        database == SubSeq(info, b, c - 1)
        collection == SubSeq(info, c + 1, d - 1)
    IN  IF matches /\ collection # s_cmd /\ database # s_tmp
                   /\ database # s_system
        THEN <<[_id |-> [collection |-> collection, type |-> type],
                value |-> [count |-> 1]]>>
        ELSE <<>>

MAP(info) ==
    LET a == RunEnd(info, 1, WordChars)
        b == RunEnd(info, a, SpaceChars)
        c == RunEnd(info, b, DbChars)
        d == RunEnd(info, c + 1, CollChars)
        matches == /\ a > 1 /\ b > a /\ c > b
                   /\ c <= Len(info) /\ info[c] = "."
                   /\ d > c + 1
        type == SubSeq(info, 1, a - 1)
        database == SubSeq(info, b, c - 1)
        collection == SubSeq(info, c + 1, d - 1)
    IN  IF matches /\ collection # s_cmd /\ database # s_tmp
                   /\ database # s_system
        THEN <<[_id |-> [collection |-> collection, type |-> type],
                value |-> [count |-> 1]]>>
        ELSE <<>>

\* ----------------------------------------------------------------- REDUCE
RECURSIVE SumCounts(_)
SumCounts(values) ==
    IF values = <<>> THEN 0 ELSE Head(values).count + SumCounts(Tail(values))

REDUCE_last(key, values) == [count |-> values[Len(values)].count]

REDUCE(key, values) == [count |-> SumCounts(values)]

\* ------------------------------------------------------------ dictionaries
EmptyMap == <<>>    \* the dict {} : a function with an empty domain

Put(f, k, v) == [x \in DOMAIN f \cup {k} |-> IF x = k THEN v ELSE f[x]]

\* dict.setdefault(k, d)
setdefault(f, k, d) == IF k \in DOMAIN f THEN f ELSE Put(f, k, d)

\* ----------------------------------------------------------- parse_results
\* one iteration of the loop of parse_results, lines 109-119
ParseStep_replace(res, doc) ==
    LET collection == doc._id.collection
        type == doc._id.type
        value == doc.value.count
    IN  IF collection \notin DOMAIN res
        THEN Put(res, collection, Put(EmptyMap, type, value))
        ELSE IF type \notin DOMAIN res[collection]
             THEN Put(res, collection, Put(EmptyMap, type, value))
             ELSE Put(res, collection,
                      Put(res[collection], type, res[collection][type] + value))

ParseStep_defaults(res, doc) ==
    LET collection == doc._id.collection
        type == doc._id.type
        value == doc.value.count
    IN  IF collection \notin DOMAIN res
        THEN Put(res, collection, Put(Put(EmptyMap, s_query, 0), type, value))
        ELSE IF type \notin DOMAIN res[collection]
             THEN Put(res, collection, Put(res[collection], type, value))
             ELSE Put(res, collection,
                      Put(res[collection], type, res[collection][type] + value))

ParseStep(res, doc) ==
    LET collection == doc._id.collection
        type == doc._id.type
        value == doc.value.count
    IN  IF collection \notin DOMAIN res
        THEN Put(res, collection, Put(EmptyMap, type, value))
        ELSE IF type \notin DOMAIN res[collection]
             THEN Put(res, collection, Put(res[collection], type, value))
             ELSE Put(res, collection,
                      Put(res[collection], type, res[collection][type] + value))

\* parse_results as a function of the whole list mr_data
RECURSIVE ParseFrom(_, _)
ParseFrom(res, mr_data) ==
    IF mr_data = <<>> THEN res
    ELSE ParseFrom(ParseStep(res, Head(mr_data)), Tail(mr_data))

parse_results(mr_data) == ParseFrom(EmptyMap, mr_data)

\* ------------------------------------------------------------- print_table
\* the five setdefault calls, lines 141-145
WithDefaults_overwrite(v) ==
    Put(Put(Put(Put(Put(v, s_query, 0), s_insert, 0), s_getmore, 0),
            s_update, 0), s_remove, 0)

WithDefaults(v) ==
    setdefault(setdefault(setdefault(setdefault(setdefault(
        v, s_query, 0), s_insert, 0), s_getmore, 0), s_update, 0), s_remove, 0)

RECURSIVE GCD(_, _)
GCD(m, n) == IF n = 0 THEN m ELSE GCD(n, m % n)

Abs(n) == IF n < 0 THEN 0 - n ELSE n

\* c / norm for norm # 0 : the quotient as a fraction <<numerator,
\* denominator>> in lowest terms with a positive denominator.  The rounding
\* of the floating-point quotient is not modelled.
Quotient(c, norm) ==
    LET g == GCD(Abs(c), Abs(norm))
        sign == IF norm < 0 THEN -1 ELSE 1
    IN  <<(sign * c) \div g, Abs(norm) \div g>>

\* the list handed to table.add_row, lines 146-148
Row_swapped(col, v, norm) ==
    <<col, Quotient(v[s_insert], norm), Quotient(v[s_query], norm),
      Quotient(v[s_getmore], norm), Quotient(v[s_update], norm),
      Quotient(v[s_remove], norm)>>

RECURSIVE SetToSeq(_)
SetToSeq(S) == IF S = {} THEN <<>>
               ELSE LET x == CHOOSE y \in S : TRUE IN <<x>> \o SetToSeq(S \ {x})

Row_all_types(col, v, norm) ==
    LET others == SetToSeq(DOMAIN v \ {s_query, s_insert, s_getmore, s_update, s_remove})
    IN  <<col, Quotient(v[s_query], norm), Quotient(v[s_insert], norm),
          Quotient(v[s_getmore], norm), Quotient(v[s_update], norm),
          Quotient(v[s_remove], norm)>>
        \o [i \in 1..Len(others) |-> Quotient(v[others[i]], norm)]

Row(col, v, norm) ==
    <<col, Quotient(v[s_query], norm), Quotient(v[s_insert], norm),
      Quotient(v[s_getmore], norm), Quotient(v[s_update], norm),
      Quotient(v[s_remove], norm)>>

VARIABLES pc, dbLevel, profileExists, profile, profiling_level, interval,
          count, calls, mapped, emitted, mr_result, parsed, results, table,
          error
vars == <<pc, dbLevel, profileExists, profile, profiling_level, interval,
          count, calls, mapped, emitted, mr_result, parsed, results, table,
          error>>

Intervals == -1..MaxInterval
LoggedInfos == {i_query_foo, i_insert_foo, i_command_cmd}

RECURSIVE SeqsUpTo(_, _)
SeqsUpTo(S, n) ==
    IF n = 0 THEN {<<>>}
    ELSE LET shorter == SeqsUpTo(S, n - 1)
         IN  shorter \cup {Append(q, x) : q \in shorter, x \in S}

\* ------------------------------------------------------------ the database
\* the profiler writes one document while profiling is on; the collection is
\* capped, the oldest document makes room once max documents are held.  The
\* collection is no longer read once the map/reduce has been handed over.
LogOp ==
    /\ pc \in {"profiling_level", "drop_collection", "create_collection",
               "set_profiling_level", "sleep", "count", "revert",
               "inline_map_reduce"}
    /\ dbLevel # OFF
    /\ profileExists
    /\ \E info \in LoggedInfos :
          profile' = IF Len(profile) >= MaxObjects
                     THEN Append(Tail(profile), info)
                     ELSE Append(profile, info)
    /\ UNCHANGED <<pc, dbLevel, profileExists, profiling_level, interval,
                   count, calls, mapped, emitted, mr_result, parsed, results,
                   table, error>>

\* ------------------------------------------------------------- __main__
\* line 172
ReadProfilingLevel ==
    /\ pc = "profiling_level"
    /\ profiling_level' = dbLevel
    /\ calls' = Append(calls, <<"profiling_level", NoLevel>>)
    /\ pc' = "drop_collection"
    /\ UNCHANGED <<dbLevel, profileExists, profile, interval, count, mapped,
                   emitted, mr_result, parsed, results, table, error>>

\* line 89
DropCollection ==
    /\ pc = "drop_collection"
    /\ profileExists' = FALSE
    /\ profile' = <<>>
    /\ calls' = Append(calls, <<"drop_collection", NoLevel>>)
    /\ pc' = "create_collection"
    /\ UNCHANGED <<dbLevel, profiling_level, interval, count, mapped, emitted,
                   mr_result, parsed, results, table, error>>

\* line 90
CreateCollection ==
    /\ pc = "create_collection"
    /\ profileExists' = TRUE
    /\ profile' = <<>>
    /\ calls' = Append(calls, <<"create_collection", NoLevel>>)
    /\ pc' = "set_profiling_level"
    /\ UNCHANGED <<dbLevel, profiling_level, interval, count, mapped, emitted,
                   mr_result, parsed, results, table, error>>

\* line 175
reset_profiling_collection == DropCollection \/ CreateCollection

\* line 176
SetProfilingAll ==
    /\ pc = "set_profiling_level"
    /\ dbLevel' = ALL
    /\ calls' = Append(calls, <<"set_profiling_level", ALL>>)
    /\ pc' = "sleep"
    /\ UNCHANGED <<profileExists, profile, profiling_level, interval, count,
                   mapped, emitted, mr_result, parsed, results, table, error>>

\* line 181; time.sleep raises IOError (EINVAL) for a negative duration
Sleep ==
    /\ pc = "sleep"
    /\ IF interval < 0
       THEN pc' = "failed" /\ error' = "IOError"
       ELSE pc' = "count" /\ error' = error
    /\ UNCHANGED <<dbLevel, profileExists, profile, profiling_level, interval,
                   count, calls, mapped, emitted, mr_result, parsed, results,
                   table>>

\* line 184
Count ==
    /\ pc = "count"
    /\ count' = Len(profile)
    /\ calls' = Append(calls, <<"count", NoLevel>>)
    /\ pc' = "revert"
    /\ UNCHANGED <<dbLevel, profileExists, profile, profiling_level, interval,
                   mapped, emitted, mr_result, parsed, results, table, error>>

\* line 187
Revert_off ==
    /\ pc = "revert"
    /\ dbLevel' = OFF
    /\ calls' = Append(calls, <<"set_profiling_level", OFF>>)
    /\ pc' = "inline_map_reduce"
    /\ UNCHANGED <<profileExists, profile, profiling_level, interval, count,
                   mapped, emitted, mr_result, parsed, results, table, error>>

Revert ==
    /\ pc = "revert"
    /\ dbLevel' = profiling_level
    /\ calls' = Append(calls, <<"set_profiling_level", profiling_level>>)
    /\ pc' = "inline_map_reduce"
    /\ UNCHANGED <<profileExists, profile, profiling_level, interval, count,
                   mapped, emitted, mr_result, parsed, results, table, error>>

\* line 195, the call
InlineMapReduce ==
    /\ pc = "inline_map_reduce"
    /\ calls' = Append(calls, <<"inline_map_reduce", NoLevel>>)
    /\ mapped' = 0
    /\ emitted' = <<>>
    /\ pc' = "map_reduce"
    /\ UNCHANGED <<dbLevel, profileExists, profile, profiling_level, interval,
                   count, mr_result, parsed, results, table, error>>

\* ------------------------------------------------------------- map/reduce
\* one document of system.profile goes through MAP
MapDoc ==
    /\ pc = "map_reduce"
    /\ mapped < Len(profile)
    /\ mapped' = mapped + 1
    /\ emitted' = emitted \o MAP(profile[mapped + 1])
    /\ UNCHANGED <<pc, dbLevel, profileExists, profile, profiling_level,
                   interval, count, calls, mr_result, parsed, results, table,
                   error>>

SameKey(S) == \A i, j \in S : emitted[i]._id = emitted[j]._id

Min(S) == CHOOSE x \in S : \A y \in S : x <= y

RECURSIVE Pick(_, _, _)
\* the elements of q at the positions in keep, from position i on, in order
Pick(q, i, keep) ==
    IF i > Len(q) THEN <<>>
    ELSE (IF i \in keep THEN <<q[i]>> ELSE <<>>) \o Pick(q, i + 1, keep)

\* the server hands two or more values emitted (or already reduced) for one
\* key to REDUCE and keeps the one value it returns in their place; it does so
\* in any grouping and as often as values of one key remain
ReduceValues ==
    /\ pc = "map_reduce"
    /\ \E S \in SUBSET (1..Len(emitted)) :
          /\ Cardinality(S) >= 2
          /\ SameKey(S)
          /\ LET first == Min(S)
                 key == emitted[first]._id
                 values == Pick([i \in 1..Len(emitted) |-> emitted[i].value], 1, S)
                 reduced == [i \in 1..Len(emitted) |->
                               IF i = first
                               THEN [_id |-> key, value |-> REDUCE(key, values)]
                               ELSE emitted[i]]
             IN  emitted' = Pick(reduced, 1, (1..Len(emitted)) \ (S \ {first}))
    /\ UNCHANGED <<pc, dbLevel, profileExists, profile, profiling_level,
                   interval, count, calls, mapped, mr_result, parsed, results,
                   table, error>>

FullyReduced ==
    \A i, j \in 1..Len(emitted) : emitted[i]._id = emitted[j]._id => i = j

\* line 195, the return: one document per key
MapReduceReturn ==
    /\ pc = "map_reduce"
    /\ mapped = Len(profile)
    /\ FullyReduced
    /\ mr_result' = emitted
    /\ parsed' = 0
    /\ results' = EmptyMap
    /\ pc' = "parse_results"
    /\ UNCHANGED <<dbLevel, profileExists, profile, profiling_level, interval,
                   count, calls, mapped, emitted, table, error>>

\* print_table called with a list in which a key may come in several partial
\* counts: parse_results does not rely on one document per key
PrintTablePartial ==
    /\ pc = "map_reduce"
    /\ mapped = Len(profile)
    /\ mr_result' = emitted
    /\ parsed' = 0
    /\ results' = EmptyMap
    /\ pc' = "parse_results"
    /\ UNCHANGED <<dbLevel, profileExists, profile, profiling_level, interval,
                   count, calls, mapped, emitted, table, error>>

\* ---------------------------------------------------------- print_table
\* lines 108-119, one iteration
ParseDoc ==
    /\ pc = "parse_results"
    /\ parsed < Len(mr_result)
    /\ results' = ParseStep(results, mr_result[parsed + 1])
    /\ parsed' = parsed + 1
    /\ UNCHANGED <<pc, dbLevel, profileExists, profile, profiling_level,
                   interval, count, calls, mapped, emitted, mr_result, table,
                   error>>

\* line 120
ParseReturn ==
    /\ pc = "parse_results"
    /\ parsed = Len(mr_result)
    /\ pc' = "rows"
    /\ UNCHANGED <<dbLevel, profileExists, profile, profiling_level, interval,
                   count, calls, mapped, emitted, mr_result, parsed, results,
                   table, error>>

RowCollections == {table[i][1] : i \in 1..Len(table)}

\* lines 140-148, one iteration: v is the dict held in results, so the
\* setdefault calls add keys to results; a zero norm raises
\* ZeroDivisionError at line 146, after the setdefault calls
AddRow ==
    /\ pc = "rows"
    /\ \E col \in DOMAIN results \ RowCollections :
          LET v == WithDefaults(results[col])
          IN  /\ results' = Put(results, col, v)
              /\ IF interval = 0
                 THEN /\ pc' = "failed"
                      /\ error' = "ZeroDivisionError"
                      /\ table' = table
                 ELSE /\ pc' = pc
                      /\ error' = error
                      /\ table' = Append(table, Row(col, v, interval))
    /\ UNCHANGED <<dbLevel, profileExists, profile, profiling_level, interval,
                   count, calls, mapped, emitted, mr_result, parsed>>

\* line 150
Draw ==
    /\ pc = "rows"
    /\ DOMAIN results = RowCollections
    /\ pc' = "done"
    /\ UNCHANGED <<dbLevel, profileExists, profile, profiling_level, interval,
                   count, calls, mapped, emitted, mr_result, parsed, results,
                   table, error>>

print_table == ParseDoc \/ ParseReturn \/ AddRow \/ Draw

\* ------------------------------------------------------- specifications
\* the whole tool: a database at any profiling level, with or without an
\* older system.profile
Init ==
    /\ pc = "profiling_level"
    /\ dbLevel \in Levels
    /\ profile \in SeqsUpTo(LoggedInfos, 1)
    /\ profileExists = (profile # <<>>)
    /\ profiling_level = NoLevel
    /\ interval \in Intervals
    /\ count = 0
    /\ calls = <<>>
    /\ mapped = 0
    /\ emitted = <<>>
    /\ mr_result = <<>>
    /\ parsed = 0
    /\ results = EmptyMap
    /\ table = <<>>
    /\ error = "none"

Next ==
    \/ LogOp
    \/ ReadProfilingLevel
    \/ reset_profiling_collection
    \/ SetProfilingAll
    \/ Sleep
    \/ Count
    \/ Revert
    \/ InlineMapReduce
    \/ MapDoc
    \/ ReduceValues
    \/ MapReduceReturn
    \/ print_table

Spec == Init /\ [][Next]_vars

\* the aggregation and the table on their own: any profiling documents, any
\* grouping into partial counts, any interval
InitAgg ==
    /\ pc = "map_reduce"
    /\ dbLevel = OFF
    /\ profileExists = TRUE
    /\ profile \in SeqsUpTo(Infos, MaxObjects)
    /\ profiling_level = OFF
    /\ interval \in Intervals
    /\ count = Len(profile)
    /\ calls = <<>>
    /\ mapped = 0
    /\ emitted = <<>>
    /\ mr_result = <<>>
    /\ parsed = 0
    /\ results = EmptyMap
    /\ table = <<>>
    /\ error = "none"

NextAgg == MapDoc \/ ReduceValues \/ PrintTablePartial \/ print_table

SpecAgg == InitAgg /\ [][NextAgg]_vars

\* MAP on its own: one info string, well-formed or not
InitKey ==
    /\ pc = "map_reduce"
    /\ dbLevel = OFF
    /\ profileExists = TRUE
    /\ profile \in {<<i>> : i \in AllInfos}
    /\ profiling_level = OFF
    /\ interval = 1
    /\ count = 1
    /\ calls = <<>>
    /\ mapped = 0
    /\ emitted = <<>>
    /\ mr_result = <<>>
    /\ parsed = 0
    /\ results = EmptyMap
    /\ table = <<>>
    /\ error = "none"

NextKey == MapDoc

SpecKey == InitKey /\ [][NextKey]_vars

\* ================================================================ claims
Canonical == {s_query, s_insert, s_getmore, s_update, s_remove}
Columns == <<s_query, s_insert, s_getmore, s_update, s_remove>>

Key(c, t) == [collection |-> c, type |-> t]

\* the keys MAP extracts from the documents of the collection
ObservedKeys ==
    {MAP(profile[i])[1]._id : i \in {j \in 1..Len(profile) : MAP(profile[j]) # <<>>}}

\* the number of documents whose extracted key is k
Occurrences(k) ==
    Cardinality({i \in 1..Len(profile) :
                    MAP(profile[i]) # <<>> /\ MAP(profile[i])[1]._id = k})

Stored(c, t) ==
    IF c \in DOMAIN results /\ t \in DOMAIN results[c] THEN results[c][t] ELSE 0

StoredKeys == {Key(c, t) : <<c, t>> \in
                 UNION {{<<c, t>> : t \in DOMAIN results[c]} : c \in DOMAIN results}}

\* parse_results has returned and print_table has not yet touched its result
Aggregated == pc = "rows" /\ table = <<>>

\* C1: after the aggregation the count stored for each (collection, opType)
\* pair is the number of profiling documents whose extracted key is that
\* pair, documents without a key add nothing, whatever partial counts the
\* matching documents were grouped into on the way.
C1_CountsExact ==
    Aggregated =>
        /\ \A k \in ObservedKeys : Stored(k.collection, k.type) = Occurrences(k)
        /\ \A k \in StoredKeys : k \in ObservedKeys

C1_Witness ==
    /\ Aggregated
    /\ Len(mr_result) = 2
    /\ Stored(s_foo, s_query) = 3

RECURSIVE MapAll(_)
MapAll(entries) ==
    IF entries = <<>> THEN <<>> ELSE MAP(Head(entries)) \o MapAll(Tail(entries))

Perms(n) == {f \in [1..n -> 1..n] : \A i, j \in 1..n : f[i] = f[j] => i = j}

\* C2: the aggregation does not depend on the order of the documents: the
\* mapping it built equals the mapping built from every permutation of the
\* same documents, one partial count per document.
C2_OrderIndependent ==
    Aggregated =>
        \A f \in Perms(Len(profile)) :
            results = parse_results(MapAll([i \in 1..Len(profile) |-> profile[f[i]]]))

C2_Witness ==
    /\ Aggregated
    /\ Len(profile) = 3
    /\ s_foo \in DOMAIN results
    /\ DOMAIN results[s_foo] = {s_query, s_insert}
    /\ results[s_foo][s_query] = 2

\* ---- the shape of an info string, stated without the scan of MAP
AllIn(s, i, j, class) == \A k \in i..j : s[k] \in class

\* the ways to read info as: lead whitespace 1..h, verb h+1..a, whitespace
\* a+1..b, database b+1..c, "." at c+1, collection c+2..d, with the
\* collection ending at the end of the string or before a character that
\* cannot belong to it
Shapes(info) ==
    LET n == Len(info)
    IN  UNION {UNION {UNION {UNION {
            {[lead |-> h,
              verb |-> SubSeq(info, h + 1, a),
              database |-> SubSeq(info, b + 1, c),
              collection |-> SubSeq(info, c + 2, d)] :
                d \in {x \in (c + 2)..n :
                         /\ AllIn(info, c + 2, x, CollChars)
                         /\ (x = n \/ info[x + 1] \notin CollChars)}} :
                c \in {x \in (b + 1)..(n - 1) :
                         /\ AllIn(info, b + 1, x, DbChars)
                         /\ info[x + 1] = "."}} :
                b \in {x \in (a + 1)..n : AllIn(info, a + 1, x, SpaceChars)}} :
                a \in {x \in (h + 1)..n : AllIn(info, h + 1, x, WordChars)}} :
                h \in {x \in 0..n : AllIn(info, 1, x, SpaceChars)}}

Excluded(sh) ==
    sh.collection = s_cmd \/ sh.database = s_tmp \/ sh.database = s_system

\* C3: an info string whose collection is exactly $cmd, or whose database is
\* exactly tmp or exactly system, makes MAP emit nothing, whatever the verb
\* and the trailing text.
C3_ExcludedEmitNothing ==
    mapped = 1 =>
        \A sh \in Shapes(profile[1]) : Excluded(sh) => emitted = <<>>

C3_Witness ==
    /\ mapped = 1
    /\ emitted = <<>>
    /\ \E sh \in Shapes(profile[1]) :
          sh.lead = 0 /\ sh.database = s_system /\ sh.collection = s_foo_bar

\* C4 as stated: with optional leading whitespace the key is still extracted.
C4_Original ==
    mapped = 1 =>
        \A sh \in Shapes(profile[1]) :
            ~Excluded(sh) =>
                emitted = <<[_id |-> Key(sh.collection, sh.verb),
                             value |-> [count |-> 1]]>>

\* C4 amended: an info string of the shape that starts with its verb (no
\* leading whitespace) and is not excluded gives the key whose opType is the
\* verb as written and whose collection is the text after the first "." up
\* to the first character that cannot belong to a collection name; with
\* leading whitespace nothing is emitted.
C4_KeyExtracted ==
    mapped = 1 =>
        \A sh \in Shapes(profile[1]) :
            /\ (sh.lead = 0 /\ ~Excluded(sh)) =>
                  emitted = <<[_id |-> Key(sh.collection, sh.verb),
                               value |-> [count |-> 1]]>>
            /\ sh.lead > 0 => emitted = <<>>

C4_Witness ==
    /\ mapped = 1
    /\ profile[1] = i_query_foo_bar
    /\ emitted = <<[_id |-> Key(s_foo_bar, s_query), value |-> [count |-> 1]]>>

\* the documents of the collection whose key is (c, t)
Counted(c, t) == Occurrences(Key(c, t))

ObservedCollections == {k.collection : k \in ObservedKeys}

ObservedTypes(c) == {k.type : k \in {x \in ObservedKeys : x.collection = c}}

\* C5: with a positive interval every collection of the mapping gets a row,
\* and the row gives, for each of query, insert, getmore, update and remove,
\* the count of that type (0 when the type was never observed for the
\* collection) divided by the interval.
C5_CanonicalRates ==
    interval > 0 =>
        /\ \A i \in 1..Len(table) :
              /\ Len(table[i]) = 6
              /\ table[i][1] \in ObservedCollections
              /\ \A j \in 1..5 :
                    /\ table[i][j + 1][2] > 0
                    /\ table[i][j + 1][1] * interval
                          = table[i][j + 1][2] * Counted(table[i][1], Columns[j])
        /\ pc = "done" => RowCollections = ObservedCollections

C5_Witness ==
    /\ pc = "done"
    /\ interval = 2
    /\ table = <<<<s_foo, <<1, 1>>, <<1, 2>>, <<0, 1>>, <<0, 1>>, <<0, 1>>>>>>

\* C6: with a zero or negative interval the rate computation fails and
\* produces no rate, for every counts mapping, the empty one included.
C6_NonPositiveIntervalFails ==
    interval <= 0 => (table = <<>> /\ pc # "done")

C8_ExactKeys ==
    Aggregated =>
        /\ DOMAIN results = ObservedCollections
        /\ \A c \in DOMAIN results :
              /\ DOMAIN results[c] = ObservedTypes(c)
              /\ \A t \in DOMAIN results[c] : results[c][t] >= 1
        /\ profile = <<>> => results = EmptyMap

C8_Witness ==
    /\ Aggregated
    /\ Len(profile) = 3
    /\ DOMAIN results = {s_foo, s_foo_bar}
    /\ DOMAIN results[s_foo] = {s_insert}
    /\ DOMAIN results[s_foo_bar] = {s_query}

\* C9 as stated: nothing after the aggregation pass changes the mapping.
C9_Original ==
    [][pc = "rows" => results' = results]_vars

\* C9 amended: after the aggregation pass the rate computation adds no
\* collection, removes no key and alters no count of the mapping; all it
\* adds are canonical opTypes missing for a collection, with count 0.
C9_OnlyDefaultsAdded ==
    [][pc = "rows" =>
        /\ DOMAIN results' = DOMAIN results
        /\ \A c \in DOMAIN results :
              /\ DOMAIN results[c] \subseteq DOMAIN results'[c]
              /\ DOMAIN results'[c] \subseteq DOMAIN results[c] \cup Canonical
              /\ \A t \in DOMAIN results[c] : results'[c][t] = results[c][t]
              /\ \A t \in DOMAIN results'[c] \ DOMAIN results[c] :
                    results'[c][t] = 0]_vars

C9_Witness ==
    /\ pc = "done"
    /\ Len(table) = 1
    /\ results = Put(EmptyMap, s_foo,
                     Put(Put(Put(Put(Put(EmptyMap, s_query, 2), s_insert, 0),
                         s_getmore, 0), s_update, 0), s_remove, 0))

\* C10: the profiling collection is dropped and created anew before the
\* level is set, the level is ALL through the timed window, it is back at
\* the level read at the start before the map/reduce starts, and it still
\* is when the run ends.
CallBefore(op, i) == \E j \in 1..(i - 1) : calls[j][1] = op

C10_ProfilingLevelSequence ==
    /\ \A i \in 1..Len(calls) :
          calls[i][1] = "set_profiling_level" =>
              \E k \in 1..(i - 1) :
                  /\ calls[k][1] = "create_collection"
                  /\ CallBefore("drop_collection", k)
                  /\ CallBefore("profiling_level", k)
    /\ pc \in {"sleep", "count", "revert"} =>
          /\ dbLevel = ALL
          /\ calls[Len(calls) - (IF pc = "revert" THEN 1 ELSE 0)]
                = <<"set_profiling_level", ALL>>
    /\ pc \in {"inline_map_reduce", "map_reduce", "parse_results", "rows", "done"} =>
          /\ dbLevel = profiling_level
          /\ profiling_level \in Levels
          /\ \E i \in 1..Len(calls) :
                /\ calls[i] = <<"set_profiling_level", profiling_level>>
                /\ \A j \in 1..i : calls[j][1] # "inline_map_reduce"
                /\ \A j \in (i + 1)..Len(calls) : calls[j][1] # "set_profiling_level"
    /\ pc = "done" => dbLevel = profiling_level

C10_Witness ==
    /\ pc = "done"
    /\ profiling_level = SLOW_ONLY
    /\ dbLevel = SLOW_ONLY
    /\ table # <<>>
====
